---- MODULE Spec2Model ----
(***************************************************************************)
(* Model of the AggregatorBackend ingestion engine: the MQTT connection    *)
(* manager, the recent-message buffer, the subscriber fan-out, the payload *)
(* to event mapping with the event log writer (src/mqtt_client.py), the    *)
(* event catalog (src/models.py) and the live-stream reader (src/app.py).  *)
(*                                                                         *)
(* A section of code that runs with a lock held is one action: every other *)
(* access to the data it touches takes the same lock, so no other step can *)
(* observe a state inside it.  on_mqtt_message is therefore three steps:   *)
(* the section under _message_lock, _persist_event (one database           *)
(* transaction) and _notify_subscribers (under _subscribers_lock).         *)
(***************************************************************************)
EXTENDS Integers, Sequences, FiniteSets, TLC

\* ---------------------------------------------------------------- bounds
\* Messages delivered by the broker in one run.
MaxMsgs == 3
\* Largest configured capacity (MAX_MESSAGES ranges over 0..MaxCapacity).
MaxCapacity == 2
\* Commands handed to publish_message in one run.
MaxPublish == 2

\* The clock runs from 0 to MaxTicks seconds.
MaxTicks == 1
\* Rows of an event log handed to the analytics queries.
MaxEvents == 4
\* Runs of init_db by one process, and rows of a starting catalog.
MaxSeedRuns == 2
MaxCatalogRows == 3

\* ------------------------------------------------------------- constants
MQTT_EVENT_TOPIC == "elevator/events"

\* MAX_MESSAGES when the environment does not set it.
DefaultMaxMessages == 10

EVENT_TYPES ==
    << "floor_reached_0", "floor_reached_1", "floor_reached_2",
       "button_inside_0", "button_inside_1", "button_inside_2",
       "call_button_0_up", "call_button_1_up",
       "call_button_1_down", "call_button_2_down",
       "emergency_stop", "emergency_released",
       "maxim_connected", "maxim_connection_lost" >>

\* An optional integer (int | None): None, or the one-element tuple of the
\* integer.
None == << >>

Some(n) == << n >>

\* ------------------------------------------------------- Python helpers
Range(s) == { s[i] : i \in 1..Len(s) }

Min(a, b) == IF a < b THEN a ELSE b

Max(a, b) == IF a > b THEN a ELSE b

Reverse(s) == [ i \in 1..Len(s) |-> s[Len(s) + 1 - i] ]

\* The character of string s at position i (1-based).
CharAt(s, i) == SubSeq(s, i, i)

\* str.startswith
StartsWith(s, prefix) ==
    /\ Len(s) >= Len(prefix)
    /\ SubSeq(s, 1, Len(prefix)) = prefix

\* Position of the last "_" of s, 0 when there is none.
LastUnderscore(s) ==
    LET at == { i \in 1..Len(s) : CharAt(s, i) = "_" }
    IN  IF at = {} THEN 0 ELSE CHOOSE i \in at : \A j \in at : j <= i

\* Position of the first "_" of s, 0 when there is none.
FirstUnderscore(s) ==
    LET at == { i \in 1..Len(s) : CharAt(s, i) = "_" }
    IN  IF at = {} THEN 0 ELSE CHOOSE i \in at : \A j \in at : i <= j

\* s.rsplit("_", 1)[-1]: what follows the last "_" (all of s without one).
RSplitLast(s) == SubSeq(s, LastUnderscore(s) + 1, Len(s))

\* s.split("_", 1)[0]: what precedes the first "_" (all of s without one).
SplitFirst(s) ==
    IF FirstUnderscore(s) = 0 THEN s ELSE SubSeq(s, 1, FirstUnderscore(s) - 1)

Digits == << "0", "1", "2", "3", "4", "5", "6", "7", "8", "9" >>

IsDigitChar(c) == \E d \in 1..10 : Digits[d] = c

DigitValue(c) == (CHOOSE d \in 1..10 : Digits[d] = c) - 1

\* str.isdigit: not empty and made of digits only.
IsDigit(s) ==
    /\ Len(s) > 0
    /\ \A i \in 1..Len(s) : IsDigitChar(CharAt(s, i))

RECURSIVE DecimalValue(_)
DecimalValue(s) ==
    IF Len(s) = 0 THEN 0
    ELSE 10 * DecimalValue(SubSeq(s, 1, Len(s) - 1)) + DigitValue(CharAt(s, Len(s)))

\* int(s) where a ValueError is caught and replaced by None: an optional
\* sign followed by decimal digits parses, anything else does not.
IntOrNone(s) ==
    IF IsDigit(s) THEN Some(DecimalValue(s))
    ELSE IF Len(s) > 1 /\ CharAt(s, 1) = "+" /\ IsDigit(SubSeq(s, 2, Len(s)))
         THEN Some(DecimalValue(SubSeq(s, 2, Len(s))))
    ELSE IF Len(s) > 1 /\ CharAt(s, 1) = "-" /\ IsDigit(SubSeq(s, 2, Len(s)))
         THEN Some(0 - DecimalValue(SubSeq(s, 2, Len(s))))
    ELSE None

\* The stop index Python uses for the slice lst[:stop] of a list of length n.
SliceStop(n, stop) == IF stop < 0 THEN Max(n + stop, 0) ELSE Min(stop, n)

\* del lst[:stop]
DelPrefix(lst, stop) == SubSeq(lst, SliceStop(Len(lst), stop) + 1, Len(lst))

\* ----------------------------------------------------------------- state
VARIABLES
    MAX_MESSAGES,          \* config.MAX_MESSAGES, read from the environment
    _latest_messages,      \* the recent-message buffer, oldest first
    _message_id_counter,   \* id of the last message
    _subscribers,          \* the list of registered queues
    queue,                 \* contents of every queue, oldest first
    event_types,           \* table event_types: the name of row i
    events,                \* table events: the rows, in insertion order
    pc,                    \* per ingestion thread: where on_mqtt_message is
    message,               \* per ingestion thread: its local `message`
    persisted,             \* per ingestion thread: how _persist_event ended
    sess,                  \* per live-stream session: where generate() is
    held,                  \* per live-stream session: the message at yield
    peer,                  \* per live-stream session: is the peer still there
    broker,                \* is the broker reachable from this host
    loop,                  \* where the thread of start_mqtt_loop is
    _client,               \* the module's client handle, None until connected
    sock,                  \* the client library's socket: open or not
    subscribed,            \* is MQTT_EVENT_TOPIC subscribed on this connection
    outbox,                \* commands the client library keeps for sending
    wire,                  \* commands the broker received
    calls,                 \* publish_message calls: qos, state found, result
    now,                   \* the clock: datetime.now(timezone.utc), in seconds
    snapshot,              \* what the last latest_messages() call returned
    result,                \* what the last analytics query returned
    seed                   \* per process running init_db(): where it is

vars == << MAX_MESSAGES, _latest_messages, _message_id_counter, _subscribers,
           queue, event_types, events, pc, message, persisted, sess, held,
           peer, broker, loop, _client, sock, subscribed, outbox, wire, calls,
           now, snapshot, result, seed >>

connVars == << broker, loop, _client, sock, subscribed, outbox, wire, calls >>

hubVars == << MAX_MESSAGES, _latest_messages, _message_id_counter,
              _subscribers, queue, event_types, events, pc, message,
              persisted, sess, held, peer >>

ingestVars == << _latest_messages, _message_id_counter, events, pc, message,
                 persisted >>

sessVars == << sess, held, peer >>

readVars == << now, snapshot, result, seed >>

\* The live-stream sessions of a run; a session owns the queue it creates,
\* so a queue is named by its session.
Sessions == { "s1", "s2" }

\* Payloads the broker delivers in the runs of Spec.
Payloads == { "call_button_1_down", "unknown_noise" }

\* datetime.isoformat() of an aware UTC time, and datetime.fromisoformat()
\* of such a string: the text carries the time and the offset, the parse
\* gives the time back.
isoformat(t) == << t, "+00:00" >>

fromisoformat(ts_str) == ts_str[1]

NoMessage == [ id |-> 0, topic |-> "", payload |-> "", timestamp |-> << >> ]

\* register_flask_app(app) runs when app.py is imported, before the MQTT
\* thread is launched: the handle is set in every state of a run.
_flask_app == "app"

\* Before the first latest_messages() call (no result holds the message of
\* id 0) and before the first query.
NoSnapshot == << NoMessage >>

NoResult == [ fn |-> "none" ]

\* ------------------------------------------------------------ Event Mapper
_extract_floor(event_type) ==
    IF StartsWith(event_type, "stopped_at_floor_")
      THEN IntOrNone(RSplitLast(event_type))
    ELSE IF StartsWith(event_type, "cabin_button_")
      THEN IntOrNone(RSplitLast(event_type))
    ELSE IF StartsWith(event_type, "call_button_")
      THEN LET tail  == SubSeq(event_type, Len("call_button_") + 1, Len(event_type))
               part0 == SplitFirst(tail)
           IN  IF IsDigit(part0) THEN Some(DecimalValue(part0)) ELSE None
    ELSE None

\* EventType.query.filter_by(event_type=payload).first(): the id of the
\* first row with that name (ids start at 1), 0 for no row.
EventTypeRow(table, payload) ==
    LET at == { i \in 1..Len(table) : table[i] = payload }
    IN  IF at = {} THEN 0 ELSE CHOOSE i \in at : \A j \in at : i <= j

\* ---------------------------------------------------------- Event Log Writer
\* Mutant of _persist_event: the database calls are not wrapped in
\* try/except, so a store failure leaves the function as an exception.
_persist_event_uncaught(msg, table, rows, storeFails) ==
    IF _flask_app = "None"
      THEN [ rows |-> rows, how |-> "skipped" ]
    ELSE IF msg.payload = "" \/ msg.payload \notin Range(EVENT_TYPES)
      THEN [ rows |-> rows, how |-> "skipped" ]
    ELSE LET floor == _extract_floor(msg.payload)
             row   == EventTypeRow(table, msg.payload)
         IN  IF storeFails
               THEN [ rows |-> rows, how |-> "raised" ]
             ELSE IF row = 0
               THEN [ rows |-> rows, how |-> "skipped" ]
             ELSE [ rows |-> Append(rows, [ event_type_id |-> row,
                                            floor |-> floor,
                                            timestamp |-> fromisoformat(msg.timestamp) ]),
                    how  |-> "stored" ]

\* Mutant of _persist_event: a payload outside the catalog is stored under
\* the first catalog row instead of being dropped.
_persist_event_default_type(msg, table, rows, storeFails) ==
    LET known == msg.payload \in Range(EVENT_TYPES)
        floor == IF known THEN _extract_floor(msg.payload) ELSE None
        row   == IF known THEN EventTypeRow(table, msg.payload) ELSE 1
    IN  IF storeFails
          THEN [ rows |-> rows, how |-> "failed" ]
        ELSE IF row = 0
          THEN [ rows |-> rows, how |-> "skipped" ]
        ELSE [ rows |-> Append(rows, [ event_type_id |-> row,
                                       floor |-> floor,
                                       timestamp |-> fromisoformat(msg.timestamp) ]),
               how  |-> "stored" ]

\* _persist_event(message) on the tables (table, rows), with the store
\* failing inside the transaction or not: the rows afterwards and how the
\* call ended ("skipped": returned without writing, "stored": committed,
\* "failed": the exception was caught and rolled back, "raised": an
\* exception left the function).
_persist_event(msg, table, rows, storeFails) ==
    IF _flask_app = "None"
      THEN [ rows |-> rows, how |-> "skipped" ]
    ELSE IF msg.payload = "" \/ msg.payload \notin Range(EVENT_TYPES)
      THEN [ rows |-> rows, how |-> "skipped" ]
    ELSE LET floor == _extract_floor(msg.payload)
             row   == EventTypeRow(table, msg.payload)
         IN  IF storeFails
               THEN [ rows |-> rows, how |-> "failed" ]
             ELSE IF row = 0
               THEN [ rows |-> rows, how |-> "skipped" ]
             ELSE [ rows |-> Append(rows, [ event_type_id |-> row,
                                            floor |-> floor,
                                            timestamp |-> fromisoformat(msg.timestamp) ]),
                    how  |-> "stored" ]

\* ------------------------------------------------------------- Fan-out Hub
\* Queue(): maxsize is 0, which the queue module reads as "no limit".
QueueMaxSize == 0

\* Mutant of full: the queue holds one item at most.
full_after_one(items) == Len(items) >= 1

\* Queue.full(): put() blocks for as long as this holds.
full(items) == QueueMaxSize > 0 /\ Len(items) >= QueueMaxSize

\* for q in subs: q.put(msg)
RECURSIVE PutAll(_, _, _)
PutAll(qs, subs, msg) ==
    IF subs = << >> THEN qs
    ELSE PutAll([ qs EXCEPT ![Head(subs)] = Append(@, msg) ], Tail(subs), msg)

\* list.remove(q): drops the first occurrence.
Remove(lst, q) ==
    LET at == { i \in 1..Len(lst) : lst[i] = q }
        k  == CHOOSE i \in at : \A j \in at : i <= j
    IN  SubSeq(lst, 1, k - 1) \o SubSeq(lst, k + 1, Len(lst))

\* subscribe_to_messages(): a new empty queue, appended to the list.
subscribe_to_messages(q) ==
    /\ _subscribers' = Append(_subscribers, q)
    /\ queue' = [ queue EXCEPT ![q] = << >> ]

\* Mutant of unsubscribe: removes the last queue of the list, not q.
unsubscribe_pop_last(q) ==
    _subscribers' = IF q \in Range(_subscribers)
                      THEN SubSeq(_subscribers, 1, Len(_subscribers) - 1)
                      ELSE _subscribers

\* Mutant of unsubscribe: list.remove without the membership test; for a
\* queue that is not in the list it raises ValueError and the call does not
\* return.
unsubscribe_unguarded(q) ==
    /\ q \in Range(_subscribers)
    /\ _subscribers' = Remove(_subscribers, q)

\* unsubscribe(q)
unsubscribe(q) ==
    _subscribers' = IF q \in Range(_subscribers)
                      THEN Remove(_subscribers, q)
                      ELSE _subscribers

\* Mutant of _notify_subscribers: the loop is left after the first put.
_notify_subscribers_first_only(msg) ==
    queue' = PutAll(queue,
                    IF _subscribers = << >> THEN << >>
                                            ELSE << Head(_subscribers) >>,
                    msg)

\* Mutant of _notify_subscribers: the loop over the queues runs twice.
_notify_subscribers_twice(msg) ==
    /\ \A q \in Range(_subscribers) : ~full(queue[q])
    /\ queue' = PutAll(PutAll(queue, _subscribers, msg), _subscribers, msg)

\* _notify_subscribers(message): the loop ends when no put() blocks.
_notify_subscribers(msg) ==
    /\ \A q \in Range(_subscribers) : ~full(queue[q])
    /\ queue' = PutAll(queue, _subscribers, msg)

\* ------------------------------------------------------ Recent-Message Buffer
\* Mutant of latest_messages: the copy is returned in buffer order.
latest_messages_unreversed == _latest_messages

\* latest_messages(): the copy and the reversal happen under _message_lock.
latest_messages == Reverse(_latest_messages)

\* Mutant of NextId: the counter is not advanced.
NextIdStale(counter) == counter

\* _message_id_counter += 1
NextId(counter) == counter + 1

\* --------------------------------------------------------- on_mqtt_message
\* Mutant of StepAfter: the broadcast comes before the persistence attempt.
StepAfterBroadcastFirst(step) ==
    IF step = "locked" THEN "notify"
    ELSE IF step = "notify" THEN "persist"
    ELSE "idle"

\* The order of the calls in on_mqtt_message: the locked section, then
\* _persist_event(message), then _notify_subscribers(message), then the
\* return.
StepAfter(step) ==
    IF step = "locked" THEN "persist"
    ELSE IF step = "persist" THEN "notify"
    ELSE "idle"

\* The section under _message_lock: the next id, the message, the append
\* and the trim.
OnMessageLocked(t, payload) ==
    /\ pc[t] = "idle"
    /\ _message_id_counter < MaxMsgs
    /\ LET msg == [ id      |-> NextId(_message_id_counter),
                    topic   |-> MQTT_EVENT_TOPIC,
                    payload |-> payload,
                    timestamp |-> isoformat(now) ]
       IN  /\ _message_id_counter' = msg.id
           /\ message' = [ message EXCEPT ![t] = msg ]
           /\ _latest_messages' =
                  DelPrefix(Append(_latest_messages, msg), 0 - MAX_MESSAGES)
    /\ pc' = [ pc EXCEPT ![t] = StepAfter("locked") ]
    /\ persisted' = [ persisted EXCEPT ![t] = "pending" ]
    /\ UNCHANGED << connVars, readVars, MAX_MESSAGES, _subscribers, queue, event_types, events,
                    sessVars >>

\* The call of _persist_event.
OnMessagePersist(t, storeFails) ==
    /\ pc[t] = "persist"
    /\ LET r == _persist_event(message[t], event_types, events, storeFails)
       IN  /\ events' = r.rows
           /\ persisted' = [ persisted EXCEPT ![t] = r.how ]
           /\ pc' = [ pc EXCEPT ![t] =
                        IF r.how = "raised" THEN "raised"
                                            ELSE StepAfter("persist") ]
    /\ UNCHANGED << connVars, readVars, MAX_MESSAGES, _latest_messages, _message_id_counter,
                    _subscribers, queue, event_types, message, sessVars >>

\* The call of _notify_subscribers, and the return.
OnMessageNotify(t) ==
    /\ pc[t] = "notify"
    /\ _notify_subscribers(message[t])
    /\ pc' = [ pc EXCEPT ![t] = StepAfter("notify") ]
    /\ UNCHANGED << connVars, readVars, MAX_MESSAGES, _latest_messages, _message_id_counter,
                    _subscribers, event_types, events, message, persisted,
                    sessVars >>

\* ---------------------------------------------------------------- api_messages
\* GET /api/messages on a Flask thread: one call of latest_messages(), which
\* holds _message_lock while it copies, so it runs between two locked
\* sections of on_mqtt_message and never inside one.
api_messages ==
    /\ snapshot' = latest_messages
    /\ UNCHANGED << connVars, hubVars, now, result, seed >>

\* ------------------------------------------------- api_events_stream.generate
\* q = subscribe_to_messages(), and the first q.get() blocks.
StreamOpen(s) ==
    /\ sess[s] = "new"
    /\ subscribe_to_messages(s)
    /\ sess' = [ sess EXCEPT ![s] = "get" ]
    /\ UNCHANGED << connVars, readVars, MAX_MESSAGES, ingestVars, event_types, held, peer >>

\* message = q.get() returns, and the generator yields the event.
StreamGet(s) ==
    /\ sess[s] = "get"
    /\ queue[s] # << >>
    /\ held' = [ held EXCEPT ![s] = Head(queue[s]) ]
    /\ queue' = [ queue EXCEPT ![s] = Tail(@) ]
    /\ sess' = [ sess EXCEPT ![s] = "yield" ]
    /\ UNCHANGED << connVars, readVars, MAX_MESSAGES, ingestVars, event_types, _subscribers, peer >>

\* The server wrote the event to the peer and resumes the generator.
StreamSent(s) ==
    /\ sess[s] = "yield"
    /\ peer[s] = "connected"
    /\ sess' = [ sess EXCEPT ![s] = "get" ]
    /\ held' = [ held EXCEPT ![s] = NoMessage ]
    /\ UNCHANGED << connVars, readVars, MAX_MESSAGES, ingestVars, event_types, _subscribers, queue,
                    peer >>

\* The write to a peer that is gone fails; the server closes the generator,
\* GeneratorExit is raised at the yield and the handler unsubscribes.
StreamClosed(s) ==
    /\ sess[s] = "yield"
    /\ peer[s] = "gone"
    /\ unsubscribe(s)
    /\ sess' = [ sess EXCEPT ![s] = "done" ]
    /\ UNCHANGED << connVars, readVars, MAX_MESSAGES, ingestVars, event_types, queue, held, peer >>

\* unsubscribe(q) called on any queue at any moment: one that is
\* registered, one that was removed before, one that never was registered.
Unsubscribe(q) ==
    /\ unsubscribe(q)
    /\ UNCHANGED << connVars, readVars, MAX_MESSAGES, ingestVars, event_types,
                    queue, sessVars >>

\* The remote peer disconnects.
PeerDisconnect(s) ==
    /\ sess[s] \in { "get", "yield" }
    /\ peer[s] = "connected"
    /\ peer' = [ peer EXCEPT ![s] = "gone" ]
    /\ UNCHANGED << connVars, readVars, MAX_MESSAGES, ingestVars, event_types, _subscribers, queue,
                    sess, held >>

\* ------------------------------------------------- Broker Connection Manager
\* The client library (paho-mqtt) is not part of the repository; its
\* behaviour is modelled as its documentation and source describe it:
\* connect() raises when the broker cannot be reached; loop_forever()
\* handles the CONNACK (calling on_connect), notices a lost connection and
\* then reconnects until it succeeds; publish() returns MQTT_ERR_NO_CONN
\* without a socket and MQTT_ERR_SUCCESS with one, and keeps a message of
\* qos > 0 it could not send, to send it once connected again.

\* start_mqtt_loop: client.connect() succeeds, _client is set and
\* loop_forever() is entered.
StartConnected ==
    /\ loop = "unstarted"
    /\ broker = "up"
    /\ sock' = TRUE
    /\ _client' = "client"
    /\ loop' = "connack"
    /\ UNCHANGED << hubVars, readVars, broker, subscribed, outbox, wire, calls >>

\* start_mqtt_loop: client.connect() raises; the exception ends the thread
\* before _client is set.
StartRefused ==
    /\ loop = "unstarted"
    /\ broker = "down"
    /\ loop' = "crashed"
    /\ UNCHANGED << hubVars, readVars, broker, _client, sock, subscribed, outbox, wire,
                    calls >>

\* loop_forever: the CONNACK arrives; on_mqtt_connect subscribes to the
\* event topic and the library sends the messages it kept.
on_mqtt_connect ==
    /\ loop = "connack"
    /\ broker = "up"
    /\ subscribed' = TRUE
    /\ wire' = wire \cup Range(outbox)
    /\ outbox' = << >>
    /\ loop' = "connected"
    /\ UNCHANGED << hubVars, readVars, broker, _client, sock, calls >>

\* loop_forever: the connection is found lost; the socket is closed.
ConnectionLost ==
    /\ loop \in { "connack", "connected" }
    /\ broker = "down"
    /\ sock' = FALSE
    /\ subscribed' = FALSE
    /\ loop' = "reconnecting"
    /\ UNCHANGED << hubVars, readVars, broker, _client, outbox, wire, calls >>

\* loop_forever: a reconnect attempt succeeds (a failed one is caught and
\* repeated, which changes nothing).
Reconnected ==
    /\ loop = "reconnecting"
    /\ broker = "up"
    /\ sock' = TRUE
    /\ loop' = "connack"
    /\ UNCHANGED << hubVars, readVars, broker, _client, subscribed, outbox, wire, calls >>

\* The broker becomes unreachable, or reachable again.
BrokerFlips ==
    /\ broker' = IF broker = "up" THEN "down" ELSE "up"
    /\ UNCHANGED << hubVars, readVars, loop, _client, sock, subscribed, outbox, wire,
                    calls >>

\* publish_message(payload, qos=qos), the payload being command number
\* Len(calls) + 1.
publish_message(qos) ==
    /\ Len(calls) < MaxPublish
    /\ LET n  == Len(calls) + 1
           ok == _client # "None" /\ sock
       IN  /\ calls' = Append(calls, [ qos    |-> qos,
                                       client |-> _client # "None",
                                       sock   |-> sock,
                                       ok     |-> ok ])
           /\ IF _client = "None"
                THEN UNCHANGED << outbox, wire >>
              ELSE IF sock
                THEN IF broker = "up"
                       THEN /\ wire' = wire \cup { n }
                            /\ UNCHANGED outbox
                     ELSE IF qos > 0
                       THEN /\ outbox' = Append(outbox, n)
                            /\ UNCHANGED wire
                     ELSE UNCHANGED << outbox, wire >>
              ELSE IF qos > 0
                THEN /\ outbox' = Append(outbox, n)
                     /\ UNCHANGED wire
              ELSE UNCHANGED << outbox, wire >>
    /\ UNCHANGED << hubVars, readVars, broker, loop, _client, sock, subscribed >>

\* --------------------------------------------------------------------- init_db
\* The processes that import app.py, each running init_db() (a restart
\* runs it again), at most MaxSeedRuns times each.
SeedProcs == { "w1", "w2" }

NotSeeding == [ at |-> "idle", existing |-> { }, runs |-> 0 ]

\* Mutant of to_add: every catalog name is added, known or not.
to_add_everything(existing) == EVENT_TYPES

\* to_add = [name for name in EVENT_TYPES if name not in existing]
to_add(existing) == SelectSeq(EVENT_TYPES, LAMBDA name : name \notin existing)

\* db.create_all() and existing = {et.event_type for et in
\* EventType.query.all()}
InitDbRead(p) ==
    /\ seed[p].at # "read"
    /\ seed[p].runs < MaxSeedRuns
    /\ seed' = [ seed EXCEPT ![p] = [ at       |-> "read",
                                       existing |-> Range(event_types),
                                       runs     |-> @.runs + 1 ] ]
    /\ UNCHANGED << connVars, MAX_MESSAGES, ingestVars, _subscribers, queue,
                    event_types, sessVars, now, snapshot, result >>

\* if to_add: add_all(...); commit(). The column event_type is unique: the
\* commit fails as a whole and the exception leaves init_db when another
\* process has added one of the names since the read.
InitDbCommit(p) ==
    /\ seed[p].at = "read"
    /\ LET names == to_add(seed[p].existing)
       IN  IF names = << >>
             THEN /\ event_types' = event_types
                  /\ seed' = [ seed EXCEPT ![p].at = "idle" ]
           ELSE IF Range(names) \cap Range(event_types) # { }
             THEN /\ event_types' = event_types
                  /\ seed' = [ seed EXCEPT ![p].at = "raised" ]
           ELSE /\ event_types' = event_types \o names
                /\ seed' = [ seed EXCEPT ![p].at = "idle" ]
    /\ UNCHANGED << connVars, MAX_MESSAGES, ingestVars, _subscribers, queue,
                    sessVars, now, snapshot, result >>

\* ------------------------------------------------------------------ analytics
\* An events row joined to its event_types row: the name of the row's type.
TypeName(table, row) == table[row.event_type_id]

\* if start_date: query.filter(Event.timestamp >= start_date)
\* if end_date:   query.filter(Event.timestamp <= end_date)
\* A bound is None or Some(t); a datetime is never falsy.
InRange(row, start_date, end_date) ==
    /\ (start_date # None => row.timestamp >= start_date[1])
    /\ (end_date # None => row.timestamp <= end_date[1])

\* join(EventType).filter(EventType.event_type.in_(names)) and the range.
Matching(table, rows, names, start_date, end_date) ==
    SelectSeq(rows, LAMBDA r : /\ TypeName(table, r) \in names
                               /\ InRange(r, start_date, end_date))

inside_buttons == { "button_inside_0", "button_inside_1", "button_inside_2" }

call_buttons == { "call_button_0_up", "call_button_1_up",
                  "call_button_1_down", "call_button_2_down" }

\* Mutant of get_total_trips: the end of the range is exclusive.
get_total_trips_end_exclusive(table, rows, start_date, end_date) ==
    Len(SelectSeq(Matching(table, rows, inside_buttons, start_date, None),
                  LAMBDA r : end_date # None => r.timestamp < end_date[1]))

\* get_total_trips(start_date, end_date): func.count, and `or 0`.
get_total_trips(table, rows, start_date, end_date) ==
    Len(Matching(table, rows, inside_buttons, start_date, end_date))

\* GROUP BY Event.floor with func.count, as the dict {floor: count}; a key
\* is the stored floor, None or Some(n).
CountByFloor(rows) ==
    [ f \in { rows[i].floor : i \in 1..Len(rows) } |->
          Cardinality({ i \in 1..Len(rows) : rows[i].floor = f }) ]

\* get_trips_by_floor(start_date, end_date)
get_trips_by_floor(table, rows, start_date, end_date) ==
    CountByFloor(Matching(table, rows, inside_buttons, start_date, end_date))

\* get_button_press_counts(start_date, end_date)
get_button_press_counts(table, rows, start_date, end_date) ==
    LET inside_count ==
            Len(Matching(table, rows, inside_buttons, start_date, end_date))
        call_count ==
            Len(Matching(table, rows, call_buttons, start_date, end_date))
    IN  [ inside_buttons |-> inside_count,
          call_buttons   |-> call_count,
          total          |-> inside_count + call_count ]

\* get_most_requested_floor(start_date, end_date): the rows of the seven
\* button types whose floor is not NULL, grouped by floor, ordered by count
\* descending, .first(). The database orders equal counts as it pleases, so
\* the operator gives every answer the query can return.
get_most_requested_floor(table, rows, start_date, end_date) ==
    LET floored == SelectSeq(Matching(table, rows,
                                      inside_buttons \cup call_buttons,
                                      start_date, end_date),
                             LAMBDA r : r.floor # None)
        counts  == CountByFloor(floored)
    IN  IF DOMAIN counts = { }
          THEN { [ floor |-> None, count |-> 0 ] }
          ELSE { [ floor |-> f, count |-> counts[f] ] :
                   f \in { g \in DOMAIN counts :
                             \A h \in DOMAIN counts : counts[h] <= counts[g] } }

\* Event.timestamp order: ORDER BY Event.timestamp over rows already sorted,
\* with one more row.
InsertByTimestamp(sorted, r) ==
    LET k == Cardinality({ i \in 1..Len(sorted) :
                             sorted[i].timestamp <= r.timestamp })
    IN  SubSeq(sorted, 1, k) \o << r >> \o SubSeq(sorted, k + 1, Len(sorted))

\* query.order_by(Event.timestamp).all()
RECURSIVE order_by_timestamp(_)
order_by_timestamp(rows) ==
    IF rows = << >> THEN << >>
    ELSE InsertByTimestamp(order_by_timestamp(SubSeq(rows, 1, Len(rows) - 1)),
                           rows[Len(rows)])

\* sum(durations)
RECURSIVE sum(_)
sum(numbers) ==
    IF numbers = << >> THEN 0 ELSE Head(numbers) + sum(Tail(numbers))

\* Mutant of first_later: a release at the activation's own instant counts.
first_not_earlier(releases, t) ==
    LET later == { i \in 1..Len(releases) : releases[i].timestamp >= t }
    IN  IF later = { } THEN 0 ELSE CHOOSE i \in later : \A j \in later : i <= j

\* for release in releases: if release.timestamp > stop.timestamp: ... break
\* The index of the release the inner loop stops at, 0 when it runs out.
first_later(releases, t) ==
    LET later == { i \in 1..Len(releases) : releases[i].timestamp > t }
    IN  IF later = { } THEN 0 ELSE CHOOSE i \in later : \A j \in later : i <= j

\* for stop in stops: the durations appended, in seconds.
RECURSIVE durations(_, _)
durations(stops, releases) ==
    IF stops = << >> THEN << >>
    ELSE LET stop == Head(stops)
             k    == first_later(releases, stop.timestamp)
         IN  (IF k = 0 THEN << >>
                       ELSE << releases[k].timestamp - stop.timestamp >>)
                \o durations(Tail(stops), releases)

\* Mutant of get_average_emergency_duration: the sum is not divided.
get_average_emergency_duration_undivided(table, rows, start_date, end_date) ==
    LET stops    == order_by_timestamp(
                        Matching(table, rows, { "emergency_stop" },
                                 start_date, end_date))
        releases == order_by_timestamp(
                        Matching(table, rows, { "emergency_released" },
                                 start_date, end_date))
        found    == durations(stops, releases)
    IN  IF stops = << >> \/ releases = << >> THEN None
        ELSE IF found = << >> THEN None
        ELSE [ num |-> sum(found), den |-> 1 ]

\* get_average_emergency_duration(start_date, end_date): None, or the
\* quotient sum(durations) / len(durations) kept as numerator and
\* denominator.
get_average_emergency_duration(table, rows, start_date, end_date) ==
    LET stops    == order_by_timestamp(
                        Matching(table, rows, { "emergency_stop" },
                                 start_date, end_date))
        releases == order_by_timestamp(
                        Matching(table, rows, { "emergency_released" },
                                 start_date, end_date))
        found    == durations(stops, releases)
    IN  IF stops = << >> \/ releases = << >> THEN None
        ELSE IF found = << >> THEN None
        ELSE [ num |-> sum(found), den |-> Len(found) ]

\* func.extract('hour', Event.timestamp): the hour of day of a timestamp
\* counted in seconds.
extract_hour(t) == (t \div 3600) % 24

\* get_events_by_hour(start_date, end_date): the dict {hour: count} over
\* the rows of every type; its keys come in ascending order.
get_events_by_hour(rows, start_date, end_date) ==
    LET found == SelectSeq(rows, LAMBDA r : InRange(r, start_date, end_date))
    IN  [ h \in { extract_hour(found[i].timestamp) : i \in 1..Len(found) } |->
            Cardinality({ i \in 1..Len(found) :
                            extract_hour(found[i].timestamp) = h }) ]

\* Mutant of get_busiest_hour: an empty histogram gives hour 0.
get_busiest_hour_default_zero(rows, start_date, end_date) ==
    LET events_by_hour == get_events_by_hour(rows, start_date, end_date)
        most == { h \in DOMAIN events_by_hour :
                    \A g \in DOMAIN events_by_hour :
                        events_by_hour[g] <= events_by_hour[h] }
        first == CHOOSE h \in most : \A g \in most : h <= g
    IN  IF DOMAIN events_by_hour = { }
          THEN [ hour |-> Some(0), event_count |-> 0 ]
          ELSE [ hour |-> Some(first), event_count |-> events_by_hour[first] ]

\* get_busiest_hour(start_date, end_date): max() keeps the first of the
\* items with the largest count, the earliest such hour.
get_busiest_hour(rows, start_date, end_date) ==
    LET events_by_hour == get_events_by_hour(rows, start_date, end_date)
        most == { h \in DOMAIN events_by_hour :
                    \A g \in DOMAIN events_by_hour :
                        events_by_hour[g] <= events_by_hour[h] }
        first == CHOOSE h \in most : \A g \in most : h <= g
    IN  IF DOMAIN events_by_hour = { }
          THEN [ hour |-> None, event_count |-> 0 ]
          ELSE [ hour |-> Some(first), event_count |-> events_by_hour[first] ]

\* round(num / den, 2) in hundredths: the nearest hundredth, the even one
\* of the two when num / den lies halfway.
round2(num, den) ==
    LET q == (100 * num) \div den
        r == (100 * num) % den
    IN  IF 2 * r < den THEN q
        ELSE IF 2 * r > den THEN q + 1
        ELSE IF q % 2 = 0 THEN q ELSE q + 1

\* Mutant of get_connection_stats: the rate is cut after two decimals.
get_connection_stats_truncated(table, rows, start_date, end_date) ==
    LET connections    == Len(Matching(table, rows, { "maxim_connected" },
                                       start_date, end_date))
        disconnections == Len(Matching(table, rows,
                                       { "maxim_connection_lost" },
                                       start_date, end_date))
        total          == connections + disconnections
    IN  [ connections     |-> connections,
          disconnections  |-> disconnections,
          connection_rate |-> IF total > 0
                                THEN (100 * 100 * connections) \div total
                                ELSE 0 ]

\* get_connection_stats(start_date, end_date); connection_rate is held in
\* hundredths of a percent (75.0 is 7500).
get_connection_stats(table, rows, start_date, end_date) ==
    LET connections    == Len(Matching(table, rows, { "maxim_connected" },
                                       start_date, end_date))
        disconnections == Len(Matching(table, rows,
                                       { "maxim_connection_lost" },
                                       start_date, end_date))
        total          == connections + disconnections
    IN  [ connections     |-> connections,
          disconnections  |-> disconnections,
          connection_rate |-> IF total > 0
                                THEN round2(100 * connections, total)
                                ELSE 0 ]

\* A query returns: the function, its arguments, how many rows the log had
\* when it ran, and the value. A query reads the log and writes nothing,
\* so a run asks one query, at any moment of the run.
Answer(fn, start_date, end_date, value) ==
    /\ result.fn = "none"
    /\ result' = [ fn |-> fn, start_date |-> start_date,
                   end_date |-> end_date, at |-> Len(events),
                   value |-> value ]
    /\ UNCHANGED << connVars, hubVars, now, snapshot, seed >>

QueryTotalTrips(start_date, end_date) ==
    Answer("get_total_trips", start_date, end_date,
           get_total_trips(event_types, events, start_date, end_date))

QueryTripsByFloor(start_date, end_date) ==
    Answer("get_trips_by_floor", start_date, end_date,
           get_trips_by_floor(event_types, events, start_date, end_date))

QueryMostRequestedFloor(start_date, end_date) ==
    \E v \in get_most_requested_floor(event_types, events,
                                      start_date, end_date) :
        Answer("get_most_requested_floor", start_date, end_date, v)

QueryAverageEmergencyDuration(start_date, end_date) ==
    Answer("get_average_emergency_duration", start_date, end_date,
           get_average_emergency_duration(event_types, events,
                                          start_date, end_date))

QueryBusiestHour(start_date, end_date) ==
    Answer("get_busiest_hour", start_date, end_date,
           get_busiest_hour(events, start_date, end_date))

QueryConnectionStats(start_date, end_date) ==
    Answer("get_connection_stats", start_date, end_date,
           get_connection_stats(event_types, events, start_date, end_date))

\* The clock moves on by a second.
Tick ==
    /\ now < MaxTicks
    /\ now' = now + 1
    /\ UNCHANGED << connVars, hubVars, snapshot, result, seed >>

\* ------------------------------------------------------------ specifications
InitTables(capacities, threads, catalogs, logs) ==
    /\ MAX_MESSAGES \in capacities
    /\ _latest_messages = << >>
    /\ _message_id_counter = 0
    /\ _subscribers = << >>
    /\ queue = [ s \in Sessions |-> << >> ]
    /\ event_types \in catalogs
    /\ events \in logs
    /\ pc = [ t \in threads |-> "idle" ]
    /\ message = [ t \in threads |-> NoMessage ]
    /\ persisted = [ t \in threads |-> "pending" ]
    /\ sess = [ s \in Sessions |-> "new" ]
    /\ held = [ s \in Sessions |-> NoMessage ]
    /\ peer = [ s \in Sessions |-> "connected" ]
    /\ broker \in { "up", "down" }
    /\ loop = "unstarted"
    /\ _client = "None"
    /\ sock = FALSE
    /\ subscribed = FALSE
    /\ outbox = << >>
    /\ wire = { }
    /\ calls = << >>
    /\ now = 0
    /\ snapshot = NoSnapshot
    /\ result = NoResult
    /\ seed = [ p \in SeedProcs |-> NotSeeding ]

\* init_db() has completed on an empty database: the catalog is EVENT_TYPES.
InitState(capacities, threads, logs) ==
    InitTables(capacities, threads, { EVENT_TYPES }, logs)

\* A fresh process: nothing has been logged yet.
InitWith(capacities, threads) == InitState(capacities, threads, { << >> })

\* The program: one ingestion thread (launch_mqtt_thread), any capacity.
Init == InitWith(0..MaxCapacity, { "mqtt" }) /\ broker = "up"

Next ==
    \/ \E t \in DOMAIN pc, p \in Payloads : OnMessageLocked(t, p)
    \/ \E t \in DOMAIN pc, f \in BOOLEAN : OnMessagePersist(t, f)
    \/ \E t \in DOMAIN pc : OnMessageNotify(t)
    \/ \E s \in Sessions : StreamOpen(s)
    \/ \E s \in Sessions : StreamGet(s)
    \/ \E s \in Sessions : StreamSent(s)
    \/ \E s \in Sessions : StreamClosed(s)
    \/ \E s \in Sessions : PeerDisconnect(s)

Spec == Init /\ [][Next]_vars

\* on_mqtt_message called from two threads at once, the buffer read by
\* latest_messages meanwhile.
InitMT == InitWith(0..MaxCapacity, { "mqtt", "other" }) /\ broker = "up"

NextMT ==
    \/ \E t \in DOMAIN pc, p \in Payloads : OnMessageLocked(t, p)
    \/ \E t \in DOMAIN pc, f \in BOOLEAN : OnMessagePersist(t, f)
    \/ \E t \in DOMAIN pc : OnMessageNotify(t)
    \/ api_messages

SpecMT == InitMT /\ [][NextMT]_vars

\* The ingestion thread alone, fed every catalog name and payloads outside
\* the catalog, with the default capacity.
CatalogPayloads ==
    Range(EVENT_TYPES) \cup
        { "unknown_noise", "", "stopped_at_floor_1", "cabin_button_2",
          "call_button_x_up", "floor_reached_9" }

InitCatalog == InitWith({ DefaultMaxMessages }, { "mqtt" }) /\ broker = "up"

NextCatalog ==
    \/ \E t \in DOMAIN pc, p \in CatalogPayloads : OnMessageLocked(t, p)
    \/ \E t \in DOMAIN pc, f \in BOOLEAN : OnMessagePersist(t, f)
    \/ \E t \in DOMAIN pc : OnMessageNotify(t)

CatalogSpec == InitCatalog /\ [][NextCatalog]_vars

\* The live system with the scheduling the code guarantees: a thread that
\* can take a step takes it.  Nothing makes the broker deliver a message,
\* a session open or a peer leave.
FairSpec ==
    /\ Spec
    /\ \A t \in { "mqtt" } :
          /\ WF_vars(\E f \in BOOLEAN : OnMessagePersist(t, f))
          /\ WF_vars(OnMessageNotify(t))
    /\ \A s \in Sessions :
          /\ WF_vars(StreamGet(s))
          /\ WF_vars(StreamSent(s))
          /\ WF_vars(StreamClosed(s))

\* The connection manager and the command path.
InitConn == InitWith({ DefaultMaxMessages }, { "mqtt" })

NextConn ==
    \/ StartConnected
    \/ StartRefused
    \/ on_mqtt_connect
    \/ ConnectionLost
    \/ Reconnected
    \/ BrokerFlips
    \/ \E qos \in { 0, 1 } : publish_message(qos)

ConnSpec == InitConn /\ [][NextConn]_vars

\* The thread of start_mqtt_loop takes the steps it can take; the broker
\* is free.
FairConnSpec ==
    /\ ConnSpec
    /\ WF_vars(StartConnected)
    /\ WF_vars(StartRefused)
    /\ WF_vars(on_mqtt_connect)
    /\ WF_vars(ConnectionLost)
    /\ WF_vars(Reconnected)

\* The pipeline on one thread with button payloads, the clock, and the trip
\* queries called between the steps with every range over the clock's values.
TripPayloads == { "button_inside_0", "button_inside_2", "call_button_2_down" }

Bounds == { None } \cup { Some(t) : t \in 0..MaxTicks }

InitTrips ==
    InitWith({ DefaultMaxMessages }, { "mqtt" }) /\ broker = "up"

NextTrips ==
    \/ \E p \in TripPayloads : OnMessageLocked("mqtt", p)
    \/ \E f \in BOOLEAN : OnMessagePersist("mqtt", f)
    \/ OnMessageNotify("mqtt")
    \/ Tick
    \/ \E a \in Bounds, b \in Bounds : QueryTotalTrips(a, b)
    \/ \E a \in Bounds, b \in Bounds : QueryTripsByFloor(a, b)
    \/ \E a \in Bounds, b \in Bounds : QueryMostRequestedFloor(a, b)

TripSpec == InitTrips /\ [][NextTrips]_vars

\* The row the log writer stores for a message of payload `name` stamped t.
StoredRow(name, t) ==
    _persist_event([ id |-> 1, topic |-> MQTT_EVENT_TOPIC,
                     payload |-> name, timestamp |-> isoformat(t) ],
                   EVENT_TYPES, << >>, FALSE).rows[1]

\* The event logs of at most MaxEvents rows with these payloads and stamps,
\* in any order.
Logs(names, times) ==
    LET rows == { StoredRow(n, t) : n \in names, t \in times }
    IN  UNION { [ 1..n -> rows ] : n \in 0..MaxEvents }

\* The emergency query on every such log of activations and releases, over
\* instants that put an activation before, at and after another one's
\* release.
EmergencyTimes == { 0, 2, 5, 10, 12, 15 }

EmergencyRanges == { << None, None >>, << Some(2), None >>,
                     << None, Some(12) >> }

InitEmergency ==
    InitState({ DefaultMaxMessages }, { "mqtt" },
              Logs({ "emergency_stop", "emergency_released" },
                   EmergencyTimes))
      /\ broker = "up"

NextEmergency ==
    \E r \in EmergencyRanges : QueryAverageEmergencyDuration(r[1], r[2])

EmergencySpec == InitEmergency /\ [][NextEmergency]_vars

\* The busiest-hour query on the logs of two event types stamped in the
\* hours 0, 1 and 23 of one day and the hour 1 of the next.
HourTimes == { 0, 3600, 82800, 90000 }

HourRanges == { << None, None >>, << Some(3600), None >>,
                << None, Some(82800) >> }

InitHours ==
    InitState({ DefaultMaxMessages }, { "mqtt" },
              Logs({ "floor_reached_1", "emergency_stop" }, HourTimes))
      /\ broker = "up"

NextHours == \E r \in HourRanges : QueryBusiestHour(r[1], r[2])

HourSpec == InitHours /\ [][NextHours]_vars

\* The connection statistics on the logs of connection events.
LinkTimes == { 0, 5 }

LinkRanges == { << None, None >>, << Some(5), None >>, << None, Some(0) >> }

InitLink ==
    InitState({ DefaultMaxMessages }, { "mqtt" },
              Logs({ "maxim_connected", "maxim_connection_lost" }, LinkTimes))
      /\ broker = "up"

NextLink == \E r \in LinkRanges : QueryConnectionStats(r[1], r[2])

LinkSpec == InitLink /\ [][NextLink]_vars

\* init_db on every starting catalog of at most MaxCatalogRows rows with
\* distinct names (the column is unique): catalog names and a name that is
\* not in EVENT_TYPES.
SeedNames == { EVENT_TYPES[1], EVENT_TYPES[2], EVENT_TYPES[Len(EVENT_TYPES)],
               "legacy_event" }

Catalogs ==
    LET all == UNION { [ 1..n -> SeedNames ] : n \in 0..MaxCatalogRows }
    IN  { c \in all : \A i, j \in 1..Len(c) : c[i] = c[j] => i = j }

InitSeed ==
    InitTables({ DefaultMaxMessages }, { "mqtt" }, Catalogs, { << >> })
      /\ broker = "up"

NextSeed ==
    \/ \E p \in SeedProcs : InitDbRead(p)
    \/ \E p \in SeedProcs : InitDbCommit(p)

SeedSpec == InitSeed /\ [][NextSeed]_vars

\* The hub by itself: queues are registered, the ingestion thread
\* broadcasts, and unsubscribe is called on any queue at any moment.
InitHub == InitWith({ DefaultMaxMessages }, { "mqtt" }) /\ broker = "up"

NextHub ==
    \/ \E p \in Payloads : OnMessageLocked("mqtt", p)
    \/ \E f \in BOOLEAN : OnMessagePersist("mqtt", f)
    \/ OnMessageNotify("mqtt")
    \/ \E s \in Sessions : StreamOpen(s)
    \/ \E q \in Sessions : Unsubscribe(q)

HubSpec == InitHub /\ [][NextHub]_vars

\* ------------------------------------------------------------------ claims
Ids(msgs) == [ i \in 1..Len(msgs) |-> msgs[i].id ]

\* The ids k, k-1, ... of the last n of k messages, most recent first.
LastIds(n, k) == [ i \in 1..Min(n, k) |-> k + 1 - i ]

Last(s) == s[Len(s)]

\* C1: for every capacity N >= 0 the buffer holds at most N entries and
\* latest_messages() is the last min(N, k) of the k messages received, most
\* recent first.
C1_BufferHoldsLastN ==
    /\ Len(_latest_messages) <= MAX_MESSAGES
    /\ Ids(latest_messages) = LastIds(MAX_MESSAGES, _message_id_counter)

\* C1 for the capacities N >= 1 only.
C1_PositiveCapacity ==
    MAX_MESSAGES >= 1 => C1_BufferHoldsLastN

\* C2: a store failure in _persist_event never leaves on_mqtt_message by an
\* exception; the message whose persistence failed is in the buffer and is
\* put on every registered queue, and the thread returns, ready for the next
\* message.
C2_PersistFailureContained ==
    /\ [](\A t \in DOMAIN pc : pc[t] # "raised")
    /\ [][\A t \in DOMAIN pc :
            (persisted[t] = "failed" /\ pc[t] = "notify" /\ pc'[t] # "notify")
              => /\ pc'[t] = "idle"
                 /\ message[t] \in Range(_latest_messages')
                 /\ \A q \in Range(_subscribers) :
                        /\ Len(queue'[q]) = Len(queue[q]) + 1
                        /\ Last(queue'[q]) = message[t]]_vars

\* C2 witness: the store failed for message 1, which reached the buffer and
\* a subscriber, and message 2 was then received and stored.
C2_Witness ==
    \E t \in DOMAIN pc, s \in Sessions :
        /\ pc[t] = "idle"
        /\ persisted[t] = "stored"
        /\ message[t].id = 2
        /\ Len(events) = 1
        /\ Len(_latest_messages) = 2
        /\ _latest_messages[1].payload \in Range(EVENT_TYPES)
        /\ queue[s] = _latest_messages

\* The floor a catalog name encodes: k for floor_reached_k, button_inside_k,
\* call_button_k_up and call_button_k_down, none for the other names.
EncodedFloor(name) ==
    IF name \in { "floor_reached_0", "button_inside_0", "call_button_0_up" }
      THEN Some(0)
    ELSE IF name \in { "floor_reached_1", "button_inside_1",
                       "call_button_1_up", "call_button_1_down" }
      THEN Some(1)
    ELSE IF name \in { "floor_reached_2", "button_inside_2",
                       "call_button_2_down" }
      THEN Some(2)
    ELSE None

\* C3: the floor of a persisted event is the floor its catalog name encodes
\* (none for a name that encodes no floor), and a payload outside the
\* catalog is not matched: it is never persisted.
C3_FloorOfCatalogName ==
    /\ \A i \in 1..Len(events) :
          /\ events[i].event_type_id \in 1..Len(EVENT_TYPES)
          /\ events[i].floor = EncodedFloor(EVENT_TYPES[events[i].event_type_id])
    /\ \A t \in DOMAIN pc :
          (pc[t] # "persist" /\ message[t].payload \notin Range(EVENT_TYPES))
             => persisted[t] \in { "pending", "skipped" }

\* C3 restricted to the call-button names and the names without a floor,
\* where the code agrees with the catalog.
C3_CallButtonsAndFloorless ==
    \A i \in 1..Len(events) :
        LET name == EVENT_TYPES[events[i].event_type_id]
        IN  (~StartsWith(name, "floor_reached_") /\ ~StartsWith(name, "button_inside_"))
              => events[i].floor = EncodedFloor(name)

\* C4: a broadcast puts the message exactly once on every queue registered
\* at that moment and on no other queue; a queue registered later starts
\* empty.
C4_BroadcastExactlyOnce ==
    [][/\ \A t \in DOMAIN pc :
            (pc[t] = "notify" /\ pc'[t] = "idle")
              => \A q \in Sessions :
                    queue'[q] = IF q \in Range(_subscribers)
                                  THEN Append(queue[q], message[t])
                                  ELSE queue[q]
       /\ \A s \in Sessions :
            (sess[s] = "new" /\ sess'[s] # "new")
              => /\ queue'[s] = << >>
                 /\ s \in Range(_subscribers')]_vars

\* C4 witness: message 1 was broadcast while only s1 was registered; s2
\* registered afterwards and its queue does not hold message 1.
C4_Witness ==
    \E t \in DOMAIN pc :
        /\ pc[t] = "idle"
        /\ message[t].id = 1
        /\ _subscribers = << "s1", "s2" >>
        /\ queue["s1"] = << message[t] >>
        /\ queue["s2"] = << >>

\* C5: once unsubscribe(q) has returned, no message is put on q.
C5_NothingAfterUnsubscribe ==
    [][\A s \in Sessions :
          sess[s] = "done" => /\ queue'[s] = queue[s]
                              /\ s \notin Range(_subscribers')]_vars

\* C5 witness: s took message 1 and unsubscribed; message 2 was broadcast
\* afterwards (it would otherwise still be on the queue of s) and the queue
\* of s is empty.
C5_Witness ==
    \E t \in DOMAIN pc, s \in Sessions :
        /\ sess[s] = "done"
        /\ held[s].id = 1
        /\ queue[s] = << >>
        /\ pc[t] = "idle"
        /\ message[t].id = 2

\* C9: every message received is appended to the buffer and broadcast; a row
\* is added to the log only for a payload that is a catalog name, and a
\* payload outside the catalog adds no row and raises nothing.
C9_OnlyCatalogPayloadsPersisted ==
    [][\A t \in DOMAIN pc :
          /\ (pc[t] = "idle" /\ pc'[t] # "idle")
               => /\ pc'[t] = "persist"
                  /\ _latest_messages' # << >>
                  /\ Last(_latest_messages') = message'[t]
          /\ (pc[t] = "persist" /\ pc'[t] # "persist")
               => /\ pc'[t] = "notify"
                  /\ events' # events
                       => /\ message[t].payload \in Range(EVENT_TYPES)
                          /\ Len(events') = Len(events) + 1
                          /\ event_types[Last(events').event_type_id]
                               = message[t].payload
                  /\ message[t].payload \notin Range(EVENT_TYPES)
                       => events' = events
          /\ (pc[t] = "notify" /\ pc'[t] # "notify")
               => /\ pc'[t] = "idle"
                  /\ \A q \in Range(_subscribers) :
                        message[t] \in Range(queue'[q])]_vars

\* C9 witness: a payload outside the catalog went through the whole handler:
\* it is in the buffer and on a subscriber's queue, and the log is empty.
C9_Witness ==
    \E t \in DOMAIN pc, s \in Sessions :
        /\ pc[t] = "idle"
        /\ message[t].payload = "unknown_noise"
        /\ persisted[t] = "skipped"
        /\ message[t] \in Range(_latest_messages)
        /\ message[t] \in Range(queue[s])
        /\ events = << >>

\* C10: ids are unique and strictly increasing, and an id is assigned
\* atomically with the append: with on_mqtt_message running in several
\* threads, the messages being handled have pairwise different ids, none
\* above the counter, and the buffer is in strictly increasing id order and
\* ends with the message that has the counter's value.
C10_IdsUniqueAndOrdered ==
    /\ \A i, j \in 1..Len(_latest_messages) :
          i < j => _latest_messages[i].id < _latest_messages[j].id
    /\ \A t, u \in DOMAIN pc :
          (t # u /\ message[t] # NoMessage /\ message[u] # NoMessage)
             => message[t].id # message[u].id
    /\ \A t \in DOMAIN pc : message[t].id <= _message_id_counter
    /\ _message_id_counter > 0
          => /\ _latest_messages # << >>
             /\ Last(_latest_messages).id = _message_id_counter

\* C10 witness: two threads are inside on_mqtt_message at the same time,
\* the one with the older message still before its broadcast.
C10_Witness ==
    /\ pc["mqtt"] = "notify"
    /\ pc["other"] = "persist"
    /\ message["mqtt"].id = 2
    /\ message["other"].id = 3
    /\ Len(_latest_messages) = 2

\* C6: when a live-stream session terminates (its peer is gone), its queue
\* is removed from the list of subscribers.
C6_TerminatedSessionUnsubscribed ==
    \A s \in Sessions :
        [](peer[s] = "gone" => <>(s \notin Range(_subscribers)))

\* C6 for a peer that leaves while its event is being written: the
\* generator is closed at the yield and unsubscribes.
C6_ClosedAtYield ==
    \A s \in Sessions :
        []((peer[s] = "gone" /\ sess[s] = "yield")
              => <>(s \notin Range(_subscribers)))

\* C7: transport errors are retried for ever: if the broker is reachable
\* from some moment on, the manager is from some moment on connected and
\* subscribed to the event topic.
C7_EventuallySubscribed ==
    <>[](broker = "up") => <>[](loop = "connected" /\ subscribed)

\* C7 for a manager whose first connection attempt succeeded.
C7_AfterFirstConnect ==
    (<>[](broker = "up") /\ [](loop # "crashed"))
        => <>[](loop = "connected" /\ subscribed)

\* C8: publish_message returns success only while a connection is
\* established and failure otherwise, and a command whose publish failed is
\* neither kept for sending nor sent.
C8_FailedPublishNotQueued ==
    \A n \in 1..Len(calls) :
        /\ calls[n].ok = (calls[n].client /\ calls[n].sock)
        /\ ~calls[n].ok => (n \notin Range(outbox) /\ n \notin wire)

\* C8 without its last part: failure exactly when no connection is
\* established, whatever the qos.
C8_FailsWithoutConnection ==
    \A n \in 1..Len(calls) : calls[n].ok = (calls[n].client /\ calls[n].sock)

\* C8 for qos 0, the qos the command endpoint uses.
C8_Qos0NotQueued ==
    \A n \in 1..Len(calls) :
        (calls[n].qos = 0 /\ ~calls[n].ok)
           => (n \notin Range(outbox) /\ n \notin wire)

\* The ids in the buffer after the first k appends, as on_mqtt_message
\* leaves it.
RECURSIVE BufferIdsAfter(_)
BufferIdsAfter(k) ==
    IF k = 0 THEN << >>
    ELSE DelPrefix(Append(BufferIdsAfter(k - 1), k), 0 - MAX_MESSAGES)

\* C11: a latest_messages() result taken while threads are appending is the
\* reversed buffer as it stood after some prefix of the appends: its ids are
\* consecutive and strictly decreasing, none is duplicated or missing, and
\* every entry is the message that was appended under that id.
C11_SnapshotIsPointInTime ==
    snapshot # NoSnapshot =>
        /\ \E k \in 0.._message_id_counter :
               Ids(snapshot) = Reverse(BufferIdsAfter(k))
        /\ \A i \in 1..Len(snapshot) :
               /\ snapshot[i].id = snapshot[1].id + 1 - i
               /\ \A j \in 1..Len(_latest_messages) :
                      _latest_messages[j].id = snapshot[i].id
                         => _latest_messages[j] = snapshot[i]

\* C11 witness: a two-message snapshot was taken, a third message has been
\* appended since, and both threads are still inside on_mqtt_message.
C11_Witness ==
    /\ snapshot # NoSnapshot
    /\ Len(snapshot) = 2
    /\ snapshot[1].id = 2
    /\ _message_id_counter = 3
    /\ pc["mqtt"] = "persist"
    /\ pc["other"] = "notify"

\* C12: a consumer that reads slowly or never does not stall ingestion:
\* whenever a thread is at the broadcast of on_mqtt_message, the broadcast
\* can complete and return, however many messages the registered queues
\* hold unread.
C12_BroadcastNeverBlocks ==
    \A t \in DOMAIN pc :
        pc[t] = "notify" => ENABLED OnMessageNotify(t)

\* C12 witness: on_mqtt_message has returned for the third message while a
\* registered queue holds all three unread, its reader still waiting to be
\* scheduled for the first get().
C12_Witness ==
    /\ _message_id_counter = 3
    /\ pc["mqtt"] = "idle"
    /\ "s1" \in Range(_subscribers)
    /\ sess["s1"] = "get"
    /\ Len(queue["s1"]) = 3

\* The log a query ran on (the log only grows, by appends) and the rows of
\* it that are in the query's range and whose type name is one of `names`.
QueriedLog == SubSeq(events, 1, result.at)

Counted(names) ==
    { i \in 1..Len(QueriedLog) :
        /\ TypeName(event_types, QueriedLog[i]) \in names
        /\ InRange(QueriedLog[i], result.start_date, result.end_date) }

\* Of those rows, the ones whose type name encodes floor f.
CountedOnFloor(names, f) ==
    { i \in Counted(names) :
        EncodedFloor(TypeName(event_types, QueriedLog[i])) = f }

Floors == { Some(0), Some(1), Some(2) }

\* C13: after ingestion, get_trips_by_floor maps every floor f that has a
\* cabin-button event in range to the number of those events and has no
\* entry for any other floor (button_inside_0, button_inside_0,
\* button_inside_2 give {0: 2, 2: 1}).
C13_TripsByFloor ==
    result.fn = "get_trips_by_floor" =>
        result.value =
            [ f \in { g \in Floors : CountedOnFloor(inside_buttons, g) # { } }
                |-> Cardinality(CountedOnFloor(inside_buttons, f)) ]

\* C14: on the log that ingestion produced, get_most_requested_floor returns
\* a floor whose cabin-button and call-button presses in range together are
\* the most of any floor, with that number, and floor null with count 0
\* when no such press is in range.
C14_MostRequestedFloor ==
    result.fn = "get_most_requested_floor" =>
        LET buttons  == inside_buttons \cup call_buttons
            combined == [ f \in Floors |->
                            Cardinality(CountedOnFloor(buttons, f)) ]
        IN  IF \A f \in Floors : combined[f] = 0
              THEN result.value = [ floor |-> None, count |-> 0 ]
              ELSE /\ result.value.floor \in Floors
                   /\ result.value.count = combined[result.value.floor]
                   /\ \A f \in Floors : combined[f] <= result.value.count

\* C17: get_total_trips(start, end) is the number of logged cabin-button
\* events with start <= timestamp <= end, a bound that is not supplied
\* leaving that side open; call-button events are not counted, the value is
\* the inside_buttons entry of get_button_press_counts for the same
\* arguments, and it is a number, 0 when nothing matches.
C17_TotalTripsInclusive ==
    result.fn = "get_total_trips" =>
        /\ result.value \in Nat
        /\ result.value = Cardinality(Counted(inside_buttons))
        /\ result.value =
             get_button_press_counts(event_types, QueriedLog,
                                     result.start_date,
                                     result.end_date).inside_buttons

\* C17 witness: the log holds a cabin press at second 0, a call press and a
\* cabin press at second 1, and the query for the range [1, 1] counted the
\* one cabin press on its bounds.
C17_Witness ==
    /\ result.fn = "get_total_trips"
    /\ result.start_date = Some(1)
    /\ result.end_date = Some(1)
    /\ result.at = 3
    /\ events[1].timestamp = 0
    /\ TypeName(event_types, events[1]) \in inside_buttons
    /\ events[2].timestamp = 1
    /\ TypeName(event_types, events[2]) \in call_buttons
    /\ events[3].timestamp = 1
    /\ TypeName(event_types, events[3]) \in inside_buttons
    /\ result.value = 1

\* The sum of the values of a function with a finite domain.
RECURSIVE SumOf(_)
SumOf(f) ==
    IF DOMAIN f = { } THEN 0
    ELSE LET i == CHOOSE j \in DOMAIN f : TRUE
         IN  f[i] + SumOf([ j \in DOMAIN f \ { i } |-> f[j] ])

\* C15: get_average_emergency_duration pairs every in-range emergency_stop
\* with the earliest in-range emergency_released that is strictly later (a
\* release may serve several activations, an activation without a later
\* release is left out) and returns the mean of the paired durations in
\* seconds; it returns null when no activation has a later release, which
\* covers the log without an activation and the log without a release.
C15_GreedyPairingMean ==
    result.fn = "get_average_emergency_duration" =>
        LET stamp(i)  == QueriedLog[i].timestamp
            stops     == Counted({ "emergency_stop" })
            releases  == Counted({ "emergency_released" })
            later(i)  == { stamp(j) : j \in { k \in releases :
                                                stamp(k) > stamp(i) } }
            paired    == { i \in stops : later(i) # { } }
            duration  == [ i \in paired |->
                             (CHOOSE t \in later(i) :
                                  \A u \in later(i) : t <= u) - stamp(i) ]
        IN  IF paired = { }
              THEN result.value = None
              ELSE /\ result.value # None
                   /\ result.value.den = Cardinality(paired)
                   /\ result.value.num = SumOf(duration)

\* C15 witness: two activations share the one later release and a third
\* activation has none: the query over [stop 0, stop 2, released 5, stop 10]
\* returned (5 + 3) / 2.
C15_Witness ==
    /\ result.fn = "get_average_emergency_duration"
    /\ result.start_date = None
    /\ result.end_date = None
    /\ Len(events) = 4
    /\ \A i \in { 1, 2, 4 } :
          TypeName(event_types, events[i]) = "emergency_stop"
    /\ TypeName(event_types, events[3]) = "emergency_released"
    /\ << events[1].timestamp, events[2].timestamp, events[3].timestamp,
          events[4].timestamp >> = << 0, 2, 5, 10 >>
    /\ result.value = [ num |-> 8, den |-> 2 ]

\* The unfiltered query ran on a log of exactly two activations, at t1 and
\* t2, and two releases, at t1 + 5 s and t2 + 10 s.
TwoActivations(t1, t2) ==
    LET stamp(i) == QueriedLog[i].timestamp
        stops    == Counted({ "emergency_stop" })
        releases == Counted({ "emergency_released" })
    IN  /\ result.fn = "get_average_emergency_duration"
        /\ result.start_date = None
        /\ result.end_date = None
        /\ Len(QueriedLog) = 4
        /\ Cardinality(stops) = 2
        /\ Cardinality(releases) = 2
        /\ \E i, j \in stops :
              i # j /\ stamp(i) = t1 /\ stamp(j) = t2
        /\ \E k, l \in releases :
              k # l /\ stamp(k) = t1 + 5 /\ stamp(l) = t2 + 10

\* The answer is 7.5 seconds, and less than 7.5 seconds.
IsSevenAndAHalf(value) == value # None /\ 2 * value.num = 15 * value.den

BelowSevenAndAHalf(value) == value # None /\ 2 * value.num < 15 * value.den

\* C16: for any two activation timestamps t1 and t2 and a log whose only
\* releases are at t1 + 5 s and t2 + 10 s, get_average_emergency_duration
\* returns 7.5 seconds.
C16_AnyTwoActivations ==
    \A t1, t2 \in EmergencyTimes :
        TwoActivations(t1, t2) => IsSevenAndAHalf(result.value)

\* Each activation's own release is the first release strictly after it.
OwnReleaseFirst(t1, t2) == t2 >= t1 + 5 \/ t1 = t2 + 5 \/ t1 >= t2 + 10

\* C16 amended: for two activation timestamps t1 and t2 with t2 >= t1 + 5 s,
\* t1 = t2 + 5 s or t1 >= t2 + 10 s, and a log whose only releases are at
\* t1 + 5 s and t2 + 10 s, get_average_emergency_duration returns 7.5
\* seconds; for every other t1 and t2 one activation is paired with the
\* other one's release and the result is below 7.5 seconds.
C16_OwnReleaseFirst ==
    \A t1, t2 \in EmergencyTimes :
        TwoActivations(t1, t2) =>
            IF OwnReleaseFirst(t1, t2)
              THEN IsSevenAndAHalf(result.value)
              ELSE BelowSevenAndAHalf(result.value)

\* C16 witness: activations at 0 and 5, releases at 5 and 15, and the query
\* returned 15 / 2.
C16_Witness ==
    /\ TwoActivations(0, 5)
    /\ result.value = [ num |-> 15, den |-> 2 ]

\* The rows of the queried log that are in the query's range, whatever
\* their type, and those of them stamped in hour h of a day.
InRangeRows ==
    { i \in 1..Len(QueriedLog) :
        InRange(QueriedLog[i], result.start_date, result.end_date) }

InHour(h) ==
    { i \in InRangeRows : extract_hour(QueriedLog[i].timestamp) = h }

\* C18: get_busiest_hour returns an hour of day whose number of in-range
\* events of all types is the largest of any hour, which is the largest
\* count in get_events_by_hour, with that number; when no event is in range
\* it returns hour null (not hour 0) and count 0.
C18_BusiestHourIsMaximum ==
    result.fn = "get_busiest_hour" =>
        LET histogram == get_events_by_hour(QueriedLog, result.start_date,
                                            result.end_date)
        IN  IF InRangeRows = { }
              THEN result.value = [ hour |-> None, event_count |-> 0 ]
              ELSE /\ result.value.hour # None
                   /\ result.value.hour[1] \in 0..23
                   /\ result.value.event_count =
                        Cardinality(InHour(result.value.hour[1]))
                   /\ \A h \in 0..23 :
                        Cardinality(InHour(h)) <= result.value.event_count
                   /\ result.value.hour[1] \in DOMAIN histogram
                   /\ \A h \in DOMAIN histogram :
                        histogram[h] <= histogram[result.value.hour[1]]

\* C18 witness: two events in hour 1, on different days, and one in hour
\* 23; the unfiltered query returned hour 1 with count 2.
C18_Witness ==
    /\ result.fn = "get_busiest_hour"
    /\ result.start_date = None
    /\ result.end_date = None
    /\ Len(events) = 3
    /\ << events[1].timestamp, events[2].timestamp, events[3].timestamp >>
         = << 3600, 82800, 90000 >>
    /\ result.value = [ hour |-> Some(1), event_count |-> 2 ]

\* C18 on the empty range: a query with no event in range has returned
\* hour null; the log itself need not be empty.
C18_EmptyRangeWitness ==
    /\ result.fn = "get_busiest_hour"
    /\ Len(events) = 1
    /\ InRangeRows = { }
    /\ result.value.hour = None

\* C19: get_connection_stats returns the number c of in-range
\* maxim_connected events, the number d of in-range maxim_connection_lost
\* events and connection_rate = 100 * c / (c + d) rounded to two decimals,
\* the nearest hundredth (3 connected and 1 lost give 75.0); the rate is 0
\* when c = d = 0.
C19_ConnectionRate ==
    result.fn = "get_connection_stats" =>
        LET c    == Cardinality(Counted({ "maxim_connected" }))
            d    == Cardinality(Counted({ "maxim_connection_lost" }))
            rate == result.value.connection_rate
            off  == rate * (c + d) - 100 * 100 * c
        IN  /\ result.value.connections = c
            /\ result.value.disconnections = d
            /\ (c + d = 0) => rate = 0
            /\ (c + d > 0) => (2 * off <= c + d /\ 0 - 2 * off <= c + d)
            /\ (c = 3 /\ d = 1) => rate = 7500

\* C19 witness: two connected and one lost, and the unfiltered query
\* returned 66.67, the rounding of 66.666...
C19_Witness ==
    /\ result.fn = "get_connection_stats"
    /\ result.start_date = None
    /\ result.end_date = None
    /\ result.value = [ connections |-> 2, disconnections |-> 1,
                        connection_rate |-> 6667 ]

\* How many rows of the catalog carry this name.
RowsNamed(name) ==
    Cardinality({ i \in 1..Len(event_types) : event_types[i] = name })

\* Every name of EVENT_TYPES has exactly one row.
Seeded == \A name \in Range(EVENT_TYPES) : RowsNamed(name) = 1

\* C20: seeding is idempotent on every starting catalog, however often
\* init_db runs: no name ever has two rows, once a run of init_db has ended
\* every name of EVENT_TYPES has exactly one row, a run on a seeded catalog
\* changes nothing, and no step removes or alters a row that existed.
C20_SeedingIdempotent ==
    /\ [](\A i, j \in 1..Len(event_types) :
              event_types[i] = event_types[j] => i = j)
    /\ []((\E p \in SeedProcs : seed[p].runs > 0 /\ seed[p].at # "read")
              => Seeded)
    /\ [][ /\ Len(event_types') >= Len(event_types)
           /\ SubSeq(event_types', 1, Len(event_types)) = event_types
           /\ (Seeded => event_types' = event_types) ]_vars

\* C20 witness: the starting catalog held a foreign name and the last
\* catalog name; one process has run init_db twice, the other once, and the
\* catalog is the two old rows followed by the missing names.
C20_Witness ==
    /\ seed["w1"] = [ at |-> "idle", existing |-> Range(event_types),
                      runs |-> 2 ]
    /\ seed["w2"].runs = 1
    /\ seed["w2"].at # "read"
    /\ Len(event_types) = Len(EVENT_TYPES) + 1
    /\ event_types[1] = "legacy_event"
    /\ event_types[2] = EVENT_TYPES[Len(EVENT_TYPES)]
    /\ Seeded

\* C21: unsubscribe(q) returns for every queue q, registered or not; for a
\* queue that is not registered (removed before, or never registered) it
\* leaves the list of registered queues as it is, for a registered queue it
\* removes that queue and keeps the others in their order, and it never
\* changes the contents of any queue.
C21_UnsubscribeIdempotent ==
    /\ [](\A q \in Sessions : ENABLED Unsubscribe(q))
    /\ [][\A q \in Sessions :
            Unsubscribe(q) =>
              /\ queue' = queue
              /\ _subscribers' = SelectSeq(_subscribers, LAMBDA x : x # q)
              /\ q \notin Range(_subscribers) => _subscribers' = _subscribers
              /\ q \notin Range(_subscribers')]_vars

\* C21 witness: s1 and s2 were registered and received message 1; s1 was
\* unsubscribed, s2 then received message 2 and s1 did not, and the queue of
\* s1 still holds message 1.
C21_Witness ==
    /\ sess["s1"] = "get"
    /\ sess["s2"] = "get"
    /\ _subscribers = << "s2" >>
    /\ Len(queue["s1"]) = 1
    /\ Len(queue["s2"]) = 2
    /\ queue["s1"][1] = queue["s2"][1]

\* The id of the last message whose broadcast has returned, with the one
\* ingestion thread of HubSpec.
LastBroadcast ==
    IF pc["mqtt"] = "idle" THEN _message_id_counter
                           ELSE _message_id_counter - 1

\* C22: with one ingestion thread, the ids put on a queue, from its
\* registration on, are consecutive and increasing: every broadcast puts
\* its message once, at the end, on every queue registered then, with the
\* id that follows the queue's last one, and a registered queue's last id
\* is the id of the last broadcast. (No reader takes anything off a queue in
\* HubSpec: a queue holds all it was given.)
C22_ConsecutiveIdsPerChannel ==
    /\ [](\A s \in Sessions :
            LET ids == Ids(queue[s])
            IN  /\ \A i \in 1..(Len(ids) - 1) : ids[i + 1] = ids[i] + 1
                /\ ids # << >> => Last(ids) <= LastBroadcast
                /\ (ids # << >> /\ s \in Range(_subscribers))
                      => Last(ids) = LastBroadcast)
    /\ [][(pc["mqtt"] = "notify" /\ pc'["mqtt"] = "idle")
            => \A s \in Range(_subscribers) :
                  /\ Len(queue'[s]) = Len(queue[s]) + 1
                  /\ Last(queue'[s]).id = _message_id_counter
                  /\ SubSeq(queue'[s], 1, Len(queue[s])) = queue[s]]_vars

\* C22 witness: s1 registered before message 1, s2 between messages 1 and
\* 2; after three broadcasts s1 holds 1, 2, 3 and s2 holds 2, 3.
C22_Witness ==
    /\ pc["mqtt"] = "idle"
    /\ _subscribers = << "s1", "s2" >>
    /\ Ids(queue["s1"]) = << 1, 2, 3 >>
    /\ Ids(queue["s2"]) = << 2, 3 >>

\* The log's last row is the row of message m: its type is m's payload and
\* its timestamp is m's.
LastRowIsOf(m) ==
    /\ events # << >>
    /\ TypeName(event_types, Last(events)) = m.payload
    /\ Last(events).timestamp = fromisoformat(m.timestamp)

\* Thread t has appended m to the buffer and finished its persistence
\* attempt for m: the attempt wrote m's row unless m's payload is no
\* catalog name or the store failed.
AppendedAndPersisted(t, m) ==
    /\ message[t] = m
    /\ m.id <= _message_id_counter
    /\ m \in Range(_latest_messages)
    /\ persisted[t] \in { "skipped", "stored", "failed" }
    /\ (m.payload \in Range(EVENT_TYPES) /\ persisted[t] # "failed")
          => (persisted[t] = "stored" /\ LastRowIsOf(m))

\* The messages on the queue of s and the one its viewer is being sent.
OnChannel(s) ==
    Range(queue[s]) \cup (IF held[s] = NoMessage THEN { } ELSE { held[s] })

\* C23: on_mqtt_message appends, then attempts persistence, then
\* broadcasts: at the step that puts a message on a queue the message is in
\* the buffer and its persistence attempt is over, with its row the last of
\* the log when the payload is a catalog name and the store did not fail;
\* rows stay in the log, and while the message a thread handled last is on
\* a queue or at a viewer, that thread has returned and the row is there.
C23_AppendPersistBroadcast ==
    /\ [][/\ \A s \in Sessions :
               Len(queue'[s]) > Len(queue[s])
                 => \E t \in DOMAIN pc :
                       /\ pc[t] = "notify"
                       /\ AppendedAndPersisted(t, Last(queue'[s]))
          /\ Len(events') >= Len(events)
          /\ SubSeq(events', 1, Len(events)) = events]_vars
    /\ [](\A s \in Sessions : \A m \in OnChannel(s) :
            /\ m.id <= _message_id_counter
            /\ \A t \in DOMAIN pc :
                  message[t].id = m.id
                    => (pc[t] = "idle" /\ AppendedAndPersisted(t, m)))

\* C23 witness: the viewer of s1 is being sent message 1, a catalog payload
\* whose row is in the log, and the message is in the buffer.
C23_Witness ==
    /\ sess["s1"] = "yield"
    /\ held["s1"].id = 1
    /\ held["s1"].payload \in Range(EVENT_TYPES)
    /\ persisted["mqtt"] = "stored"
    /\ message["mqtt"] = held["s1"]
    /\ Len(events) = 1
    /\ LastRowIsOf(held["s1"])
    /\ held["s1"] \in Range(_latest_messages)

====
